---- MODULE Spec2Model ----
(***************************************************************************)
(* FluxStore: the image carousel (src/components/Gallery.jsx) and the      *)
(* product grid controller (src/unnamed/part_000, ProductGridContent) as   *)
(* state machines.  React state is the variables; every event handler,     *)
(* timer callback and promise continuation is one action, taken together   *)
(* with the re-render and the effects that follow it.  Time is explicit:   *)
(* a pending setTimeout is its remaining delay, and time cannot pass a     *)
(* timer that is due.                                                      *)
(***************************************************************************)
EXTENDS Integers, Sequences, FiniteSets, TLC

\* ------------------------------------------------------------------ bounds

\* Longest image list handed to the carousel.
MaxImages == 4

\* Largest amount of time one Tick lets pass.
TimeStep == 50

\* ------------------------------------------------------------------- state

\* The carousel (Gallery.jsx).
VARIABLES
    images,        \* the images prop: a sequence of opaque image references
    currentIndex,  \* useState(0)
    direction,     \* useState(0): 0 at first, then 1 or -1
    animation,     \* useState(false): the animation lock
    animTimers,    \* remaining delays of the pending setTimeout of the effect
    gPhase,        \* "mounted" | "unmounted"
    \* history, read by the properties only
    gCall,         \* the step just taken: [op, arg, accepted]
    gAccepted,     \* the last accepted navigation: [op, arg, from]
    gSince,        \* time passed since the last accepted navigation
    gAnchor,       \* currentIndex before the first move of gTrail
    gTrail         \* the accepted nextImage (1) / prevImage (-1) since gAnchor

gvars == <<images, currentIndex, direction, animation, animTimers, gPhase,
           gCall, gAccepted, gSince, gAnchor, gTrail>>

\* The grid controller (part_000, ProductGridContent).
VARIABLES
    searchParams,  \* useSearchParams(): the query of the current URL
    pendingNav,    \* the URL of a router.push not yet committed: <<>> or <<q>>
    products,      \* useState([])
    error,         \* useState(null): <<>> is null, <<m>> the message m
    loading,       \* useState(true)
    isReset,       \* useState(false)
    hasMore,       \* useState(true)
    isOnline,      \* useOfflineMode().isOnline
    storage,       \* the offline cache: key -> stored result
    requests,      \* the getProducts calls awaited, each the closure's params
    resetTimers,   \* remaining delays of the pending setTimeout of handleReset
    pPhase,        \* "init" | "mounted" | "faulted" | "unmounted"
    \* history, read by the properties only
    pCall          \* the step just taken: [op, arg, params, prev]

pvars == <<searchParams, pendingNav, products, error, loading, isReset,
           hasMore, isOnline, storage, requests, resetTimers, pPhase, pCall>>

vars == <<gvars, pvars>>

\* ------------------------------------------------------- program constants

\* Gallery.jsx:14, the delay of the animation-lock release timer.
AnimDelay == 500

Min(a, b) == IF a <= b THEN a ELSE b

\* The remainder operator % of JavaScript: the result has the sign of the
\* dividend (-1 % 4 is -1).  Never applied to a zero divisor here.
JsRem(a, b) == IF a >= 0 THEN a % b ELSE -((-a) % b)

\* ================================================================ CAROUSEL


\* The image lists the component is constructed with: every length 0..MaxImages.
ImageLists == {[i \in 1..n |-> i] : n \in 0..MaxImages}

NoCall == [op |-> "none", arg |-> 0, accepted |-> FALSE]

\* Gallery.jsx:8-10, the state of the first render.
GalleryInit ==
    /\ images \in ImageLists
    /\ currentIndex = 0
    /\ direction = 0
    /\ animation = FALSE
    /\ animTimers = <<>>
    /\ gPhase = "mounted"
    /\ gCall = NoCall
    /\ gAccepted = [op |-> "none", arg |-> 0, from |-> 0]
    /\ gSince = 0
    /\ gAnchor = 0
    /\ gTrail = <<>>

\* A faulty updater: the modulo is left out.
NextIndexMutant(prevIndex) == prevIndex + 1

\* Gallery.jsx:23, the updater of nextImage.
NextIndex(prevIndex) == JsRem(prevIndex + 1, Len(images))

\* A faulty updater: images.length is not added before the remainder.
PrevIndexMutant(prevIndex) == JsRem(prevIndex - 1, Len(images))

\* Gallery.jsx:31, the updater of prevImage.
PrevIndex(prevIndex) == JsRem(prevIndex - 1 + Len(images), Len(images))

\* Gallery.jsx:83, the direction a dot click sets.
DotDirection(index) == IF index > currentIndex THEN 1 ELSE -1

\* Gallery.jsx:41-49, the classes that place the slide of image `index`
\* (0-based): shown, off to the left, off to the right, or just transparent.
SlideClass(index) ==
    IF index = currentIndex
    THEN "opacity-100 translate-x-0"
    ELSE IF index = JsRem(currentIndex - 1 + Len(images), Len(images))
    THEN "opacity-0 -translate-x-full"
    ELSE IF index = JsRem(currentIndex + 1, Len(images))
    THEN "opacity-0 translate-x-full"
    ELSE "opacity-0"

\* A faulty condition: the controls are rendered for a single image too.
ControlsRenderedMutant == Len(images) > 0

\* Gallery.jsx:61, arrows and dots are rendered only for more than one image.
ControlsRendered == Len(images) > 1

\* A faulty guard: the handlers do not look at the lock.
LockedMutant == FALSE

\* Gallery.jsx:20, 27, 82: the guard of the three handlers.
Locked == animation

\* Gallery.jsx:12-17, the effect of a render in which animation changed from
\* `was` to `now`: the cleanup of the previous run clears its timer, and a
\* run with animation true schedules the release.
\* (A faulty effect: the release is scheduled late.)
EffectTimersMutant(was, now) ==
    IF was = now THEN animTimers
    ELSE IF now THEN <<AnimDelay + TimeStep>> ELSE <<>>
EffectTimers(was, now) ==
    IF was = now THEN animTimers
    ELSE IF now THEN <<AnimDelay>> ELSE <<>>

\* A move recorded in the trail; a full trail starts again from here.
Moved(step) ==
    IF Len(gTrail) >= Len(images)
    THEN /\ gAnchor' = currentIndex
         /\ gTrail' = <<step>>
    ELSE /\ gAnchor' = gAnchor
         /\ gTrail' = Append(gTrail, step)

\* A handler that returned at its guard: nothing is set, nothing re-renders.
Rejected(op, arg) ==
    /\ gCall' = [op |-> op, arg |-> arg, accepted |-> FALSE]
    /\ UNCHANGED <<images, currentIndex, direction, animation, animTimers,
                   gPhase, gAccepted, gSince, gAnchor, gTrail>>

\* Gallery.jsx:19-24
nextImage ==
    /\ UNCHANGED pvars
    /\ gPhase = "mounted"
    /\ ControlsRendered
    /\ IF Locked
       THEN Rejected("nextImage", 0)
       ELSE /\ direction' = 1
            /\ animation' = TRUE
            /\ currentIndex' = NextIndex(currentIndex)
            /\ animTimers' = EffectTimers(animation, TRUE)
            /\ gCall' = [op |-> "nextImage", arg |-> 0, accepted |-> TRUE]
            /\ gAccepted' = [op |-> "nextImage", arg |-> 0, from |-> currentIndex]
            /\ gSince' = 0
            /\ Moved(1)
            /\ UNCHANGED <<images, gPhase>>

\* Gallery.jsx:26-33
prevImage ==
    /\ UNCHANGED pvars
    /\ gPhase = "mounted"
    /\ ControlsRendered
    /\ IF Locked
       THEN Rejected("prevImage", 0)
       ELSE /\ direction' = -1
            /\ animation' = TRUE
            /\ currentIndex' = PrevIndex(currentIndex)
            /\ animTimers' = EffectTimers(animation, TRUE)
            /\ gCall' = [op |-> "prevImage", arg |-> 0, accepted |-> TRUE]
            /\ gAccepted' = [op |-> "prevImage", arg |-> 0, from |-> currentIndex]
            /\ gSince' = 0
            /\ Moved(-1)
            /\ UNCHANGED <<images, gPhase>>

\* A faulty dot: the index is taken as 1-based.
DotTargetMutant(index) == JsRem(index + 1, Len(images))

\* Gallery.jsx:85, the index a dot click sets.
DotTarget(index) == index

\* Gallery.jsx:78-93, the onClick of the dot of image `index` (0-based).

dotClick(index) ==
    /\ UNCHANGED pvars
    /\ gPhase = "mounted"
    /\ ControlsRendered
    /\ IF Locked
       THEN Rejected("dot", index)
       ELSE /\ direction' = DotDirection(index)
            /\ animation' = TRUE
            /\ currentIndex' = DotTarget(index)
            /\ animTimers' = EffectTimers(animation, TRUE)
            /\ gCall' = [op |-> "dot", arg |-> index, accepted |-> TRUE]
            /\ gAccepted' = [op |-> "dot", arg |-> index,
                              from |-> currentIndex]
            /\ gSince' = 0
            /\ gAnchor' = index
            /\ gTrail' = <<>>
            /\ UNCHANGED <<images, gPhase>>

\* Gallery.jsx:14, the timer callback: setAnimation(false), then the render
\* and the effect's cleanup.
animationTimerFires ==
    /\ UNCHANGED pvars
    /\ animTimers # <<>>
    /\ animTimers[1] = 0
    /\ animation' = FALSE
    /\ animTimers' = EffectTimers(animation, FALSE)
    /\ gCall' = [op |-> "timer", arg |-> 0, accepted |-> TRUE]
    /\ UNCHANGED <<images, currentIndex, direction, gPhase, gAccepted, gSince,
                   gAnchor, gTrail>>

\* Gallery.jsx:15, unmounting runs the effect's cleanup: clearTimeout(timer).
galleryUnmount ==
    /\ UNCHANGED pvars
    /\ gPhase = "mounted"
    /\ gPhase' = "unmounted"
    /\ animTimers' = <<>>
    /\ gCall' = [op |-> "unmount", arg |-> 0, accepted |-> TRUE]
    /\ UNCHANGED <<images, currentIndex, direction, animation, gAccepted,
                   gSince, gAnchor, gTrail>>

\* Time passes, by at most TimeStep and never past a pending timer.
galleryTick ==
    /\ UNCHANGED pvars
    /\ animTimers # <<>>
    /\ animTimers[1] > 0
    /\ LET d == Min(TimeStep, animTimers[1]) IN
         /\ animTimers' = <<animTimers[1] - d>>
         /\ gSince' = gSince + d
    /\ gCall' = [op |-> "tick", arg |-> 0, accepted |-> TRUE]
    /\ UNCHANGED <<images, currentIndex, direction, animation, gPhase,
                   gAccepted, gAnchor, gTrail>>

GalleryNext ==
    \/ nextImage
    \/ prevImage
    \/ \E index \in 0..(Len(images) - 1) : dotClick(index)
    \/ animationTimerFires
    \/ galleryUnmount
    \/ galleryTick


\* ========================================================= GRID CONTROLLER

\* Strings are sequences of one-character strings, so that the cache key's
\* concatenation, Number() and the query string's encoding are computed.

\* ----------------------------------------------------------------- bounds

\* Largest page number the pagination control asks for.
MaxPage == 2

\* Most getProducts requests in flight at once.
MaxInFlight == 2

\* Most entries the offline cache holds.
MaxCached == 2

\* Most reset-flag timers pending at once.
MaxResetTimers == 2

\* ------------------------------------------------------ program constants

\* part_000:41, the fixed page size.
limit == 20

\* part_000:107, the delay of the reset-flag release timer.
ResetDelay == 100

\* part_000:88
ErrorMessage == "Failed to load products. Please try again later."

Digits == <<"0", "1", "2", "3", "4", "5", "6", "7", "8", "9">>

IsDigit(c) == \E d \in 1..10 : Digits[d] = c

DigitValue(c) == (CHOOSE d \in 1..10 : Digits[d] = c) - 1

\* The decimal digits of a natural number, as Number.prototype.toString and
\* template literals write it.
RECURSIVE NatStr(_)
NatStr(n) ==
    IF n < 10 THEN <<Digits[n + 1]>>
    ELSE NatStr(n \div 10) \o <<Digits[(n % 10) + 1]>>

\* part_000:73, 80, 100: a number in a template literal or under toString().
NumStr(n) == IF n < 0 THEN <<"-">> \o NatStr(-n) ELSE NatStr(n)

RECURSIVE DigitsValue(_)
DigitsValue(s) ==
    IF s = <<>> THEN 0
    ELSE 10 * DigitsValue(SubSeq(s, 1, Len(s) - 1)) + DigitValue(s[Len(s)])

AllDigits(s) == s # <<>> /\ \A i \in 1..Len(s) : IsDigit(s[i])

NaN == [nan |-> TRUE, val |-> 0]

Num(v) == [nan |-> FALSE, val |-> v]

\* Number(x) of JavaScript for x null (<<>>) or a string (<<s>>) over the
\* characters used here: null and "" are 0, an optionally signed run of
\* digits is its value, anything else is NaN.
Number(opt) ==
    IF opt = <<>> THEN Num(0)
    ELSE LET s == opt[1] IN
         IF s = <<>> THEN Num(0)
         ELSE IF AllDigits(s) THEN Num(DigitsValue(s))
         ELSE IF s[1] = "-" /\ AllDigits(Tail(s)) THEN Num(-DigitsValue(Tail(s)))
         ELSE IF s[1] = "+" /\ AllDigits(Tail(s)) THEN Num(DigitsValue(Tail(s)))
         ELSE NaN

\* A query is URLSearchParams: a sequence of [k, v] pairs, k a parameter
\* name and v a string.

Pair(k, v) == [k |-> k, v |-> v]

\* URLSearchParams.get: the first value of the name, or null (<<>>).
RECURSIVE Get(_, _)
Get(q, name) ==
    IF q = <<>> THEN <<>>
    ELSE IF q[1].k = name THEN <<q[1].v>>
    ELSE Get(Tail(q), name)

\* URLSearchParams.getAll: every value of the name, in order.
RECURSIVE GetAll(_, _)
GetAll(q, name) ==
    IF q = <<>> THEN <<>>
    ELSE (IF q[1].k = name THEN <<q[1].v>> ELSE <<>>) \o GetAll(Tail(q), name)

RECURSIVE Without(_, _)
Without(q, name) ==
    IF q = <<>> THEN <<>>
    ELSE (IF q[1].k = name THEN <<>> ELSE <<q[1]>>) \o Without(Tail(q), name)

\* URLSearchParams.set: the first pair of the name takes the value and the
\* name's other pairs are removed; a new name is appended.
RECURSIVE SetParam(_, _, _)
SetParam(q, name, value) ==
    IF q = <<>> THEN <<Pair(name, value)>>
    ELSE IF q[1].k = name THEN <<Pair(name, value)>> \o Without(Tail(q), name)
    ELSE <<q[1]>> \o SetParam(Tail(q), name, value)

\* The application/x-www-form-urlencoded byte serializer on the characters
\* used here: letters, digits and - stay, a space becomes +, the rest is
\* percent-encoded.
EncodeChar(c) ==
    CASE c = "&" -> <<"%", "2", "6">>
      [] c = "=" -> <<"%", "3", "D">>
      [] c = "%" -> <<"%", "2", "5">>
      [] c = "+" -> <<"%", "2", "B">>
      [] c = " " -> <<"+">>
      [] OTHER   -> <<c>>

RECURSIVE Encode(_)
Encode(s) == IF s = <<>> THEN <<>> ELSE EncodeChar(s[1]) \o Encode(Tail(s))

\* The percent-decoding of the parser.
RECURSIVE Decode(_)
Decode(s) ==
    IF s = <<>> THEN <<>>
    ELSE IF s[1] = "+" THEN <<" ">> \o Decode(Tail(s))
    ELSE IF s[1] = "%" /\ Len(s) >= 3
         THEN LET hex == <<s[2], s[3]>> IN
              CASE hex = <<"2", "6">> -> <<"&">> \o Decode(SubSeq(s, 4, Len(s)))
                [] hex = <<"3", "D">> -> <<"=">> \o Decode(SubSeq(s, 4, Len(s)))
                [] hex = <<"2", "5">> -> <<"%">> \o Decode(SubSeq(s, 4, Len(s)))
                [] hex = <<"2", "B">> -> <<"+">> \o Decode(SubSeq(s, 4, Len(s)))
                [] OTHER -> <<"%">> \o Decode(Tail(s))
    ELSE <<s[1]>> \o Decode(Tail(s))

\* URLSearchParams.toString: name=value joined by &.  A parameter name is
\* one token of the string: the names used contain no reserved character.
RECURSIVE ToQueryString(_)
ToQueryString(q) ==
    IF q = <<>> THEN <<>>
    ELSE <<q[1].k, "=">> \o Encode(q[1].v)
         \o (IF Len(q) > 1 THEN <<"&">> \o ToQueryString(Tail(q)) ELSE <<>>)

\* Index of the first c in s, or 0.
RECURSIVE IndexOf(_, _)
IndexOf(s, c) ==
    IF s = <<>> THEN 0
    ELSE IF s[1] = c THEN 1
    ELSE LET r == IndexOf(Tail(s), c) IN IF r = 0 THEN 0 ELSE r + 1

\* One name=value piece of a query string.
ParsePiece(piece) ==
    LET eq == IndexOf(piece, "=") IN
    IF eq = 0 THEN Pair(piece[1], <<>>)
    ELSE Pair(piece[1], Decode(SubSeq(piece, eq + 1, Len(piece))))

\* new URLSearchParams(string), and the router's reading of a pushed URL:
\* split at &, drop empty pieces, split each at its first =, decode.
RECURSIVE ParseQuery(_)
ParseQuery(str) ==
    IF str = <<>> THEN <<>>
    ELSE LET amp  == IndexOf(str, "&")
             head == IF amp = 0 THEN str ELSE SubSeq(str, 1, amp - 1)
             rest == IF amp = 0 THEN <<>> ELSE SubSeq(str, amp + 1, Len(str))
         IN (IF head = <<>> THEN <<>> ELSE <<ParsePiece(head)>>)
            \o ParseQuery(rest)

\* x || "" for x null or a string.
OrEmpty(opt) == IF opt = <<>> THEN <<>> ELSE opt[1]

\* part_000:36, Number(searchParams.get("page")) || 1: NaN and 0 are falsy.
CurrentPage(q) ==
    LET n == Number(Get(q, "page")) IN
    IF n.nan \/ n.val = 0 THEN 1 ELSE n.val

\* part_000:36-40, the five values the effect depends on and fetchProducts
\* closes over.
Params(q) ==
    [page     |-> CurrentPage(q),
     category |-> OrEmpty(Get(q, "category")),
     search   |-> OrEmpty(Get(q, "search")),
     sortBy   |-> OrEmpty(Get(q, "sortBy")),
     order    |-> OrEmpty(Get(q, "order"))]

\* part_000:43-45
IsFilterActive(q) ==
    LET p == Params(q) IN p.category # <<>> \/ p.search # <<>> \/ p.sortBy # <<>>

\* part_000:73, 80: `products-${currentPage}-${category}-${search}-${sortBy}-${order}`
CacheKey(p) ==
    <<"p", "r", "o", "d", "u", "c", "t", "s", "-">>
    \o NumStr(p.page) \o <<"-">> \o p.category \o <<"-">> \o p.search
    \o <<"-">> \o p.sortBy \o <<"-">> \o p.order



\* The URLs the user, the filter controls and the browser's history
\* navigate to.
QRoot == <<>>
QCategory == <<Pair("category", <<"a">>)>>
QTracked == <<Pair("page", <<"2">>), Pair("category", <<"a", "-">>),
              Pair("utm", <<"x", "&", "=">>), Pair("page", <<"3">>),
              Pair("order", <<"d">>)>>

Queries == {QRoot, QCategory, QTracked}

\* What getProducts resolves to: result pages of these lengths.
ResultLengths == {0, 7, limit, limit + 1}

Block(n) == [i \in 1..n |-> i]

Responses == {Block(n) : n \in ResultLengths}

\* URLs whose page parameter is empty, not a number, zero and negative.
QPageEmpty == <<Pair("page", <<>>)>>
QPageWord == <<Pair("page", <<"x">>)>>
QPageZero == <<Pair("page", <<"0">>)>>
QPageNegative == <<Pair("page", <<"-", "1">>)>>

PageQueries == {QRoot, QPageEmpty, QPageWord, QPageZero, QPageNegative,
                QTracked}

\* Two URLs whose parameter tuples differ only in where a '-' stands:
\* category "a-" with no search, and category "a" with search "-".
QDashCategory == <<Pair("category", <<"a", "-">>)>>
QDashSearch == <<Pair("category", <<"a">>), Pair("search", <<"-">>)>>

DashQueries == {QRoot, QDashCategory, QDashSearch}

\* What getProducts resolves to for the request p, when each record is told
\* apart by the request it answers.
ProductsOf(n, p) == [i \in 1..n |-> [id |-> i, query |-> p]]

ResponsesTo(p) == {ProductsOf(n, p) : n \in ResultLengths}

EmptyStorage == [key \in {} |-> <<>>]

NoPrev == [products |-> <<>>, hasMore |-> FALSE]

Called(op, arg, params, prev) ==
    [op |-> op, arg |-> arg, params |-> params, prev |-> prev]

\* part_000:28-33, the state of the first render, before its effects run,
\* for a page opened at one of the given URLs.
GridInitIn(urls) ==
    /\ searchParams \in urls
    /\ pendingNav = <<>>
    /\ products = <<>>
    /\ error = <<>>
    /\ loading = TRUE
    /\ isReset = FALSE
    /\ hasMore = TRUE
    /\ isOnline \in BOOLEAN
    /\ storage = EmptyStorage
    /\ requests = <<>>
    /\ resetTimers = <<>>
    /\ pPhase = "init"
    /\ pCall = Called("none", 0, Params(<<>>), NoPrev)

GridInit == GridInitIn(Queries)

\* A faulty render: the branch of part_000:116-128 is live, and an error is
\* shown with a retry button.
RenderOutputMutant ==
    IF loading THEN "spinner"
    ELSE IF error # <<>> THEN "retry"
    ELSE "grid"

\* part_000:110-114 and 130: what a render returns.
RenderOutput ==
    IF loading THEN "spinner"
    ELSE IF error # <<>> THEN "throw"
    ELSE "grid"

\* part_000:192-200, what the returned page shows in place of the cards.
GridContent ==
    IF Len(products) = 0 /\ error = <<>> THEN "noResults" ELSE "cards"

\* The grid's own controls (pagination, reset) exist in a render of the grid.
GridRendered == pPhase = "mounted" /\ RenderOutput = "grid"

\* A faulty read: a miss keeps the products on display.
OfflineDataMutant(key) ==
    IF key \in DOMAIN storage THEN storage[key] ELSE products

\* part_000:78-81, getFromLocalStorage(key) || [].
OfflineData(key) ==
    IF key \in DOMAIN storage THEN storage[key] ELSE <<>>

\* A faulty test: >= for ===.
HasMoreOfMutant(data) == Len(data) >= limit

\* part_000:85, data.length === limit.
HasMoreOf(data) == Len(data) = limit

\* part_000:72-75, saveToLocalStorage(key, data).
Saved(key, data) == [k \in DOMAIN storage \cup {key} |->
                        IF k = key THEN data ELSE storage[k]]

\* A faulty catch block: it falls back to the cached result.
OnRejectMutant(p) ==
    [products |-> OfflineData(CacheKey(p)),
     hasMore  |-> HasMoreOf(OfflineData(CacheKey(p))),
     error    |-> <<ErrorMessage>>]

\* part_000:87-88, the catch block: what the rejected fetch leaves in
\* products, hasMore and error.
OnReject(p) ==
    [products |-> products, hasMore |-> hasMore, error |-> <<ErrorMessage>>]

\* A faulty ending: setLoading(false) at the end of the try block, so that a
\* throw skips it.
FinallyLoadingMutant(threw) == IF threw THEN loading ELSE FALSE

\* part_000:89-91, the finally block: the value loading is set to, whether
\* or not the try block threw.
FinallyLoading(threw) == FALSE

\* A faulty start: loading is left as it was.
StartLoadingMutant == loading

\* part_000:58, setLoading(true) at the start of the try block.
StartLoading == TRUE

\* part_000:56-92 up to the first await, called by the effect of a render of
\* query q.  Online, loading is set and getProducts is awaited.  Offline,
\* nothing is awaited and the whole function runs in this step.
FetchProducts(q) ==
    LET p == Params(q) IN
    IF isOnline
    THEN /\ Len(requests) < MaxInFlight
         /\ loading' = StartLoading
         /\ requests' = Append(requests, p)
         /\ pCall' = Called("fetchStart", 0, p, NoPrev)
         /\ UNCHANGED <<products, hasMore, error>>
    ELSE LET data == OfflineData(CacheKey(p)) IN
         /\ products' = data
         /\ hasMore' = HasMoreOf(data)
         /\ error' = <<>>
         /\ loading' = FinallyLoading(FALSE)
         /\ pCall' = Called("fetchOffline", 0, p,
                            [products |-> products, hasMore |-> hasMore])
         /\ UNCHANGED requests

\* part_000:48-50, the effect after the first render.
mountEffect ==
    /\ UNCHANGED gvars
    /\ pPhase = "init"
    /\ pPhase' = "mounted"
    /\ FetchProducts(searchParams)
    /\ UNCHANGED <<searchParams, pendingNav, isReset, isOnline, storage,
                   resetTimers>>

\* A faulty dependency array: the effect depends on searchParams itself.
DepsChangedMutant(q) == q # searchParams

\* part_000:50, the dependency array [currentPage, category, search, sortBy,
\* order], compared between the last render and the render of query q.
DepsChanged(q) == Params(q) # Params(searchParams)

\* The URL became q: the component renders with the new searchParams, and the
\* effect runs again when one of its five dependencies changed (part_000:50).
UrlChanges(q, op) ==
    /\ searchParams' = q
    /\ pendingNav' = <<>>
    /\ IF DepsChanged(q)
       THEN FetchProducts(q)
       ELSE /\ pCall' = Called(op, 0, Params(q), NoPrev)
            /\ UNCHANGED <<products, hasMore, error, loading, requests>>
    /\ UNCHANGED <<isReset, isOnline, storage, resetTimers, pPhase>>

\* A navigation from outside the component: a link, the filter controls, the
\* browser's history.
navigate(q) ==
    /\ UNCHANGED gvars
    /\ pPhase = "mounted"
    /\ q # searchParams
    /\ UrlChanges(q, "navigate")

\* The router commits the URL pushed by handlePageChange or handleReset.
navCommit ==
    /\ UNCHANGED gvars
    /\ pPhase = "mounted"
    /\ pendingNav # <<>>
    /\ UrlChanges(pendingNav[1], "navCommit")

\* useOfflineMode reports a change of connectivity; no dependency of the
\* effect changes.
connectivityChanges ==
    /\ UNCHANGED gvars
    /\ pPhase = "mounted"
    /\ isOnline' = ~isOnline
    /\ pCall' = Called("connectivity", 0, Params(searchParams), NoPrev)
    /\ UNCHANGED <<searchParams, pendingNav, products, error, loading, isReset,
                   hasMore, storage, requests, resetTimers, pPhase>>

RemoveAt(seq, i) == SubSeq(seq, 1, i - 1) \o SubSeq(seq, i + 1, Len(seq))

\* A response that is dropped when the URL has moved on since its request.
ResponseAppliedMutant(p) == p = Params(searchParams)

\* part_000:84-86, the setters after the await run for the response of every
\* request: no request is cancelled, and none is compared with the current
\* parameters.
ResponseApplied(p) == TRUE

\* part_000:63-91 after the await: getProducts resolved with data.  The
\* result is cached; the setters change nothing once the component is gone.
fetchResolves(i, data) ==
    LET p == requests[i]
        key == CacheKey(p) IN
    /\ UNCHANGED gvars
    /\ pPhase # "init"
    /\ key \in DOMAIN storage \/ Cardinality(DOMAIN storage) < MaxCached
    /\ requests' = RemoveAt(requests, i)
    /\ storage' = Saved(key, data)
    /\ pCall' = Called("fetchResolved", 0, p, NoPrev)
    /\ IF pPhase = "mounted" /\ ResponseApplied(p)
       THEN /\ products' = data
            /\ hasMore' = HasMoreOf(data)
            /\ error' = <<>>
            /\ loading' = FinallyLoading(FALSE)
       ELSE UNCHANGED <<products, hasMore, error, loading>>
    /\ UNCHANGED <<searchParams, pendingNav, isReset, isOnline, resetTimers,
                   pPhase>>

\* part_000:87-91 and 112-114: getProducts rejected.  The catch and finally
\* blocks run, and the render that follows throws the error to the boundary,
\* which takes the component down.
fetchRejects(i) ==
    LET p == requests[i] IN
    /\ UNCHANGED gvars
    /\ pPhase # "init"
    /\ requests' = RemoveAt(requests, i)
    /\ pCall' = Called("fetchRejected", 0, p, NoPrev)
    /\ IF pPhase = "mounted"
       THEN /\ products' = OnReject(p).products
            /\ hasMore' = OnReject(p).hasMore
            /\ error' = OnReject(p).error
            /\ loading' = FinallyLoading(TRUE)
            /\ pPhase' = IF RenderOutput' = "throw" THEN "faulted" ELSE pPhase
       ELSE UNCHANGED <<products, hasMore, error, loading, pPhase>>
    /\ UNCHANGED <<searchParams, pendingNav, isReset, isOnline, storage,
                   resetTimers>>

\* A faulty handler: the URL is built from the page alone.
PageChangeTargetMutant(q, newPage) ==
    ParseQuery(ToQueryString(<<Pair("page", NumStr(newPage))>>))

\* part_000:99-101, the URL handlePageChange pushes, as the router reads it.
PageChangeTarget(q, newPage) ==
    ParseQuery(ToQueryString(
        SetParam(ParseQuery(ToQueryString(q)), "page", NumStr(newPage))))

\* part_000:98-102, onPageChange of the pagination control.
handlePageChange(newPage) ==
    /\ UNCHANGED gvars
    /\ GridRendered
    /\ pendingNav' = <<PageChangeTarget(searchParams, newPage)>>
    /\ pCall' = Called("changePage", newPage, Params(searchParams), NoPrev)
    /\ UNCHANGED <<searchParams, products, error, loading, isReset, hasMore,
                   isOnline, storage, requests, resetTimers, pPhase>>

\* part_000:104-108, onClick of the reset button (rendered at 156-190 while
\* a filter is active).
handleReset ==
    /\ UNCHANGED gvars
    /\ GridRendered
    /\ IsFilterActive(searchParams)
    /\ Len(resetTimers) < MaxResetTimers
    /\ isReset' = TRUE
    /\ pendingNav' = <<ParseQuery(<<>>)>>
    /\ resetTimers' = Append(resetTimers, ResetDelay)
    /\ pCall' = Called("reset", 0, Params(searchParams), NoPrev)
    /\ UNCHANGED <<searchParams, products, error, loading, hasMore, isOnline,
                   storage, requests, pPhase>>

\* part_000:107, the timer callback: setIsReset(false).  Nothing cancels the
\* timer, so it fires once the component is gone too, and sets nothing then.
resetTimerFires ==
    /\ UNCHANGED gvars
    /\ resetTimers # <<>>
    /\ resetTimers[1] = 0
    /\ resetTimers' = Tail(resetTimers)
    /\ isReset' = IF pPhase = "mounted" THEN FALSE ELSE isReset
    /\ pCall' = Called("resetTimer", 0, Params(searchParams), NoPrev)
    /\ UNCHANGED <<searchParams, pendingNav, products, error, loading, hasMore,
                   isOnline, storage, requests, pPhase>>

\* The component is unmounted (the user leaves the page).  The component
\* registers no cleanup: requests and timers stay pending.
gridUnmount ==
    /\ UNCHANGED gvars
    /\ pPhase = "mounted"
    /\ pPhase' = "unmounted"
    /\ pCall' = Called("unmount", 0, Params(searchParams), NoPrev)
    /\ UNCHANGED <<searchParams, pendingNav, products, error, loading, isReset,
                   hasMore, isOnline, storage, requests, resetTimers>>

\* Time passes, by at most TimeStep and never past a pending timer.
gridTick ==
    /\ UNCHANGED gvars
    /\ resetTimers # <<>>
    /\ resetTimers[1] > 0
    /\ LET d == Min(TimeStep, resetTimers[1]) IN
         resetTimers' = [t \in 1..Len(resetTimers) |-> resetTimers[t] - d]
    /\ pCall' = Called("tick", 0, Params(searchParams), NoPrev)
    /\ UNCHANGED <<searchParams, pendingNav, products, error, loading, isReset,
                   hasMore, isOnline, storage, requests, pPhase>>

\* Fetching: the URL changes under the component (every URL change is a
\* navigate, whoever pushed it), connectivity changes, requests complete.
GridNext ==
    \/ mountEffect
    \/ \E q \in Queries : navigate(q)
    \/ connectivityChanges
    \/ \E i \in 1..Len(requests) : \E data \in Responses : fetchResolves(i, data)
    \/ \E i \in 1..Len(requests) : fetchRejects(i)
    \/ gridUnmount

\* The grid's own controls: the only URL changes are the ones the pagination
\* control and the reset button push, and the reset timers run.
ControlsNext ==
    \/ mountEffect
    \/ navCommit
    \/ \E i \in 1..Len(requests) : \E data \in Responses : fetchResolves(i, data)
    \/ \E i \in 1..Len(requests) : fetchRejects(i)
    \/ \E newPage \in 1..MaxPage : handlePageChange(newPage)
    \/ handleReset
    \/ resetTimerFires
    \/ gridUnmount
    \/ gridTick

\* The offline cache: URLs whose values hold the key's separator, and
\* responses whose records name the request they answer.
CacheNext ==
    \/ mountEffect
    \/ \E q \in DashQueries : navigate(q)
    \/ connectivityChanges
    \/ \E i \in 1..Len(requests) :
          \E data \in ResponsesTo(requests[i]) : fetchResolves(i, data)
    \/ \E i \in 1..Len(requests) : fetchRejects(i)
    \/ gridUnmount

\* The page parameter: URLs that differ in the page parameter alone, most of
\* them read as page 1, and one URL that changes several parameters at once.
PagesNext ==
    \/ mountEffect
    \/ \E q \in PageQueries : navigate(q)
    \/ connectivityChanges
    \/ \E i \in 1..Len(requests) : \E data \in Responses : fetchResolves(i, data)
    \/ \E i \in 1..Len(requests) : fetchRejects(i)
    \/ gridUnmount

\* --------------------------------------------------------- specifications

\* A page without the carousel: an empty image list renders no control.
GalleryIdle ==
    /\ GalleryInit
    /\ images = <<>>

\* A page without the grid controller.
GridIdle ==
    /\ GridInit
    /\ searchParams = QRoot
    /\ isOnline = TRUE

\* Both components with every action.
Init == GalleryInit /\ GridInit

Next == GalleryNext \/ GridNext \/ ControlsNext \/ CacheNext \/ PagesNext

Spec == Init /\ [][Next]_vars

\* The carousel, on a page that leaves the grid controller alone.
GalleryPage == GalleryInit /\ GridIdle

SpecGallery == GalleryPage /\ [][GalleryNext]_vars

\* The carousel under the event loop: while a timer is pending time goes on,
\* and a timer that is due runs its callback.
SpecGalleryFair ==
    /\ SpecGallery
    /\ WF_vars(galleryTick)
    /\ WF_vars(animationTimerFires)

\* The grid controller fetching, on a page that leaves the carousel alone.
GridPage == GridInit /\ GalleryIdle

SpecGrid == GridPage /\ [][GridNext]_vars

\* The grid controller's pagination and reset controls.
SpecControls == GridPage /\ [][ControlsNext]_vars

\* The grid controller fetching and caching, opened at the root URL.
CachePage == GridPage /\ searchParams = QRoot

SpecCache == CachePage /\ [][CacheNext]_vars

\* The grid controller fetching, opened at any of the page URLs.
PagesPage == GridInitIn(PageQueries) /\ GalleryIdle

SpecPages == PagesPage /\ [][PagesNext]_vars

\* --------------------------------------------------- carousel properties

NavOps == {"nextImage", "prevImage", "dot"}

\* C1 (as stated): in every reachable state, for any image list length N,
\* 0 <= currentIndex < N.
C1_IndexInRangeAnyLength ==
    currentIndex \in 0..(Len(images) - 1)

\* C1 (amended): for every non-empty image list, 0 <= currentIndex < N in
\* every reachable state; for the empty list currentIndex stays 0.
C1_IndexInRange ==
    /\ Len(images) >= 1 => currentIndex \in 0..(Len(images) - 1)
    /\ Len(images) = 0 => currentIndex = 0

\* C1 witness: prevImage from index 0 wrapped around to the last image.
C1_Witness ==
    /\ Len(images) = 3
    /\ gCall.op = "prevImage" /\ gCall.accepted
    /\ gAccepted.from = 0
    /\ currentIndex = 2

\* C2: a nextImage, prevImage or dot click issued while animation is true
\* changes none of currentIndex, direction and animation, and schedules no
\* timer.
C2_LockedCallIsNoOp ==
    [][(animation /\ gCall'.op \in NavOps)
          => /\ currentIndex' = currentIndex
             /\ direction' = direction
             /\ animation' = animation
             /\ animTimers' = animTimers
             /\ ~gCall'.accepted]_vars

\* C2 witness: a dot click on another image was rejected in mid-animation.
C2_Witness ==
    /\ animation
    /\ gCall.op = "dot" /\ ~gCall.accepted
    /\ gCall.arg # currentIndex
    /\ animTimers = <<AnimDelay - TimeStep>>

\* C9: an accepted dot click on image k sets currentIndex to k, and
\* currentIndex is k until the next accepted navigation, so also when the
\* animation lock is released.
C9_JumpSetsIndex ==
    gAccepted.op = "dot" =>
        /\ currentIndex = gAccepted.arg
        /\ gCall.op = "dot" /\ gCall.accepted => animation
        /\ gCall.op = "timer" => ~animation

\* C9 witness: the lock was released after a dot click on the image that
\* was already current.
C9_Witness ==
    /\ gAccepted.op = "dot"
    /\ gAccepted.arg = gAccepted.from
    /\ gCall.op = "timer"
    /\ gSince = AnimDelay
    /\ ~animation
    /\ currentIndex = 2

AllAre(trail, step) == \A i \in 1..Len(trail) : trail[i] = step

\* C10: for N >= 2, N accepted nextImage in a row bring currentIndex back to
\* where it started, so do N accepted prevImage, and so does a nextImage
\* followed by a prevImage.
C10_CycleReturns ==
    Len(images) >= 2 =>
        /\ (Len(gTrail) = Len(images) /\ AllAre(gTrail, 1))
              => currentIndex = gAnchor
        /\ (Len(gTrail) = Len(images) /\ AllAre(gTrail, -1))
              => currentIndex = gAnchor
        /\ gTrail = <<1, -1>> => currentIndex = gAnchor

\* C10 witness: three nextImage on three images, started at the last one.
C10_Witness ==
    /\ Len(images) = 3
    /\ gTrail = <<1, 1, 1>>
    /\ gAnchor = 2
    /\ currentIndex = 2
    /\ gCall.op = "timer"

\* C11: with one image or none, no navigation control is rendered, so in
\* every reachable state currentIndex is 0 and animation is false (and no
\* release timer is pending, and no navigation was ever accepted).
C11_NoControlsNoChange ==
    Len(images) <= 1 =>
        /\ currentIndex = 0
        /\ animation = FALSE
        /\ animTimers = <<>>
        /\ gAccepted.op \notin NavOps
        /\ gCall.op \notin NavOps

\* C11 witness: a single image was shown and then taken down, the only step
\* there is for it, and the carousel is still at image 0, unlocked.
C11_Witness ==
    /\ Len(images) = 1
    /\ gCall.op = "unmount"
    /\ gPhase = "unmounted"
    /\ currentIndex = 0
    /\ ~animation

\* C16: a lock set by an accepted navigation of a mounted carousel is
\* released: animation is true for no longer than 500 time units and becomes
\* false again (unless the carousel is taken down first); the release happens
\* at 500 units, changes neither currentIndex nor direction, and a navigation
\* issued while animation is false is accepted.
C16_LockIsReleased ==
    /\ [][/\ gCall'.op = "timer"
                => /\ gSince = AnimDelay
                   /\ animation /\ ~animation'
                   /\ currentIndex' = currentIndex
                   /\ direction' = direction
          /\ (gCall'.op \in NavOps /\ ~animation) => gCall'.accepted]_vars
    /\ []((animation /\ gPhase = "mounted")
            => /\ gSince <= AnimDelay
               /\ animTimers = <<AnimDelay - gSince>>)
    /\ (animation /\ gPhase = "mounted")
          ~> (~animation \/ gPhase = "unmounted")

\* C16 witness: a prevImage was accepted, its lock was released, a nextImage
\* was accepted after that, and its lock was released too.
C16_Witness ==
    /\ gTrail = <<-1, 1>>
    /\ gCall.op = "timer"
    /\ gPhase = "mounted"
    /\ ~animation
    /\ direction = 1
    /\ gSince = AnimDelay

\* The visual state the claim C18 gives image i: the direction of the last
\* move decides which neighbour of the current image is incoming.
VisualState(i) ==
    IF i = currentIndex THEN "active"
    ELSE IF direction = 1 /\ i = (currentIndex + 1) % Len(images)
    THEN "incoming"
    ELSE IF direction = -1 /\ i = (currentIndex - 1 + Len(images)) % Len(images)
    THEN "incoming"
    ELSE "hidden"

\* C18: once a move has been made, every image is rendered in the visual
\* state that currentIndex and the direction of the last move give it: the
\* active image is shown, an incoming image is placed off to a side, a hidden
\* image is transparent in place; exactly one image is active.
C18_SlideFollowsDirection ==
    (Len(images) >= 1 /\ gAccepted.op \in NavOps) =>
        /\ \A i \in 0..(Len(images) - 1) :
              /\ VisualState(i) = "active"
                    <=> SlideClass(i) = "opacity-100 translate-x-0"
              /\ VisualState(i) = "incoming"
                    <=> SlideClass(i) \in {"opacity-0 -translate-x-full",
                                          "opacity-0 translate-x-full"}
              /\ VisualState(i) = "hidden" <=> SlideClass(i) = "opacity-0"
        /\ Cardinality({i \in 0..(Len(images) - 1) :
                           SlideClass(i) = "opacity-100 translate-x-0"}) = 1

\* ---------------------------------------------- grid controller properties

FetchEnded == {"fetchResolved", "fetchRejected", "fetchOffline"}

\* C3: when getProducts rejects under a mounted component, loading ends
\* false and error is the message, products and hasMore keep the values they
\* had, and the offline cache is not written (nor read into products).
C3_RejectedFetchKeepsState ==
    [][(pCall'.op = "fetchRejected" /\ pPhase = "mounted")
          => /\ loading' = FALSE
             /\ error' = <<ErrorMessage>>
             /\ products' = products
             /\ hasMore' = hasMore
             /\ storage' = storage]_vars

\* C3 witness: a fetch was rejected while products held a result and the
\* cache held a different result under the rejected fetch's key.
C3_Witness ==
    /\ pCall.op = "fetchRejected"
    /\ pPhase = "faulted"
    /\ products # <<>>
    /\ hasMore
    /\ CacheKey(pCall.params) \in DOMAIN storage
    /\ storage[CacheKey(pCall.params)] # products

\* C4: an offline fetch whose key has no cache entry ends with products
\* empty, hasMore false and error null, whatever they were before.
C4_OfflineMissIsEmpty ==
    (pCall.op = "fetchOffline" /\ CacheKey(pCall.params) \notin DOMAIN storage)
        => /\ products = <<>>
           /\ hasMore = FALSE
           /\ error = <<>>

\* C4 witness: the miss replaced a full page, and the cache held entries for
\* other keys.
C4_Witness ==
    /\ pCall.op = "fetchOffline"
    /\ CacheKey(pCall.params) \notin DOMAIN storage
    /\ DOMAIN storage # {}
    /\ Len(pCall.prev.products) = limit
    /\ pCall.prev.hasMore
    /\ products = <<>>

\* C5: after a fetch that completed successfully, online or from the cache,
\* hasMore is true exactly when products has 20 records.
C5_HasMoreIffFullPage ==
    (pCall.op \in {"fetchResolved", "fetchOffline"} /\ pPhase = "mounted")
        => (hasMore <=> Len(products) = 20)

\* C5 witness: a page of 21 records came from the cache, and hasMore is false.
C5_Witness ==
    /\ pCall.op = "fetchOffline"
    /\ pPhase = "mounted"
    /\ Len(products) = 21
    /\ ~hasMore

\* C6: a fetch that completed, by success, by failure or from the cache, has
\* left loading false.
C6_CompletedFetchClearsLoading ==
    (pCall.op \in FetchEnded /\ pPhase \in {"mounted", "faulted"})
        => loading = FALSE

\* C6 witness: a request was rejected while another one is still awaited.
C6_Witness ==
    /\ pCall.op = "fetchRejected"
    /\ pPhase = "faulted"
    /\ requests # <<>>
    /\ loading = FALSE

\* C12: no step but a request's own completion takes it out of flight, and
\* the response of every request that resolves under a mounted component
\* becomes products, hasMore and error, whatever the query parameters are by
\* then: the last response to complete wins.
C12_LastCompletedWins ==
    [][/\ pCall'.op \notin {"fetchResolved", "fetchRejected"}
            => /\ Len(requests') >= Len(requests)
               /\ SubSeq(requests', 1, Len(requests)) = requests
       /\ (pCall'.op = "fetchResolved" /\ pPhase = "mounted")
            => /\ Len(requests') = Len(requests) - 1
               /\ products' = storage'[CacheKey(pCall'.params)]
               /\ hasMore' = (Len(products') = limit)
               /\ error' = <<>>]_vars

\* C12 witness: no request is in flight, the last response to arrive was for
\* other parameters than the current ones, and products and hasMore are that
\* response's, not what was fetched for the current parameters.
C12_Witness ==
    /\ pPhase = "mounted"
    /\ requests = <<>>
    /\ pCall.op = "fetchResolved"
    /\ pCall.params # Params(searchParams)
    /\ products = storage[CacheKey(pCall.params)]
    /\ CacheKey(Params(searchParams)) \in DOMAIN storage
    /\ storage[CacheKey(Params(searchParams))] # products
    /\ hasMore
    /\ Len(storage[CacheKey(Params(searchParams))]) # limit
    /\ error = <<>>
    /\ ~loading

C15_OfflineReadsOwnResult ==
    (pCall.op = "fetchOffline" /\ pPhase = "mounted")
        => \A i \in 1..Len(products) : products[i].query = pCall.params

\* C17: the effect starts a fetch on mount, and after that in exactly the
\* steps in which one of page, category, search, sortBy, order changes; the
\* fetch is for the new values of all five.  A step that changes none of
\* them starts no fetch: not a change of connectivity, not a failed fetch,
\* not a URL change that leaves the five values as they were.
C17_FetchOnDependencyChange ==
    [][LET started == pCall'.op \in {"fetchStart", "fetchOffline"}
           changed == Params(searchParams') # Params(searchParams)
       IN /\ pPhase = "init" => started
          /\ pPhase = "mounted" => (started <=> changed)
          /\ pPhase \notin {"init", "mounted"} => ~started
          /\ started => pCall'.params = Params(searchParams')
          /\ (started /\ isOnline)
                => requests' = Append(requests, Params(searchParams'))
          /\ ~started => Len(requests') <= Len(requests)]_vars

\* C17 witness: fetches for page 2 of category "a-" and for page 1 are in
\* flight, connectivity has changed, and the last step took the URL from
\* another URL of page 1 to ?page=x without starting a fetch.
C17_Witness ==
    /\ pCall.op = "navigate"
    /\ pPhase = "mounted"
    /\ searchParams = QPageWord
    /\ requests = <<Params(QTracked), Params(QRoot)>>
    /\ ~isOnline

\* C20: whatever the page parameter is, the page number that the fetch
\* request, the cache key and the pagination control get is a positive
\* integer, and it is 1 when there is no page parameter.
C20_PageIsPositive ==
    pPhase = "mounted" =>
        /\ CurrentPage(searchParams) >= 1
        /\ Get(searchParams, "page") = <<>> => CurrentPage(searchParams) = 1
        /\ pCall.op \in {"fetchStart", "fetchOffline", "fetchResolved"}
              => pCall.params.page >= 1
        /\ \A i \in 1..Len(requests) : requests[i].page >= 1

\* C19: a render shows the spinner when loading is true; otherwise it throws
\* when error is set, which takes the component down; otherwise it returns
\* the page, with the no-results line for an empty products and the cards for
\* any other.  The page is never returned while error is set, and an error is
\* never shown inline with a retry.
C19_RenderGuards ==
    pPhase \in {"init", "mounted", "faulted"} =>
        /\ RenderOutput \in {"spinner", "throw", "grid"}
        /\ loading => RenderOutput = "spinner"
        /\ (~loading /\ error # <<>>) => RenderOutput = "throw"
        /\ (~loading /\ error = <<>>)
              => /\ RenderOutput = "grid"
                 /\ GridContent = "noResults" <=> products = <<>>
                 /\ GridContent = "cards" <=> products # <<>>
        /\ RenderOutput = "grid" => error = <<>>
        /\ RenderOutput = "throw" <=> pPhase = "faulted"

\* C19 witness: a fetch failed while seven products were on display, and the
\* render threw instead of returning the page.
C19_Witness ==
    /\ pCall.op = "fetchRejected"
    /\ pPhase = "faulted"
    /\ RenderOutput = "throw"
    /\ error = <<ErrorMessage>>
    /\ Len(products) = 7

\* C7: handlePageChange(newPage) pushes a URL whose only page parameter is
\* newPage and whose other parameters are the current ones, values and order
\* kept; it starts no fetch and sets none of products, loading, error, hasMore.
C7_ChangePageRewritesOnlyPage ==
    [][pCall'.op = "changePage"
          => /\ pendingNav' # <<>>
             /\ GetAll(pendingNav'[1], "page") = <<NumStr(pCall'.arg)>>
             /\ Without(pendingNav'[1], "page") = Without(searchParams, "page")
             /\ UNCHANGED <<searchParams, products, loading, error, hasMore,
                            requests, storage>>]_vars

\* C7 witness: page 1 was asked for on a URL with two page parameters, a
\* category, an order and an unrecognized parameter holding reserved
\* characters, while products held a result.
C7_Witness ==
    /\ pCall.op = "changePage"
    /\ pCall.arg = 1
    /\ searchParams = QTracked
    /\ products # <<>>
    /\ pendingNav = <<<<Pair("page", <<"1">>), Pair("category", <<"a", "-">>),
                       Pair("utm", <<"x", "&", "=">>), Pair("order", <<"d">>)>>>>

\* C8 (as stated): every handleReset pushes the bare root path and takes
\* isReset from false to true, and isReset stays true until 100 time units
\* after that call, so while the call's timer is pending.
C8_EachResetFiresOncePerCall ==
    [][/\ pCall'.op = "reset"
            => /\ pendingNav' = <<QRoot>>
               /\ ~isReset /\ isReset'
       /\ (pPhase' = "mounted" /\ resetTimers' # <<>>
              /\ resetTimers'[Len(resetTimers')] > 0)
            => isReset']_vars

\* C13: teardown cancels every pending timer: the carousel's release timer
\* fires only while the carousel is mounted, and the grid controller's reset
\* timer fires only while the grid controller is mounted.
C13_TeardownCancelsTimers ==
    [][/\ gCall'.op = "timer" => gPhase = "mounted"
       /\ pCall'.op = "resetTimer" => pPhase = "mounted"]_vars

====
